---- MODULE Spec2Model ----
(***************************************************************************)
(* The RESP codec of parser.go: ReadProtocol decodes one protocol value    *)
(* from a buffered byte stream, Encode / WriteProtocol render a value to   *)
(* its wire bytes.  A byte is a one-character string, a byte slice is a    *)
(* sequence of bytes.  The reader is a finite byte stream followed by      *)
(* end-of-file.                                                            *)
(***************************************************************************)
EXTENDS Integers, Sequences, FiniteSets

VARIABLES
    input,   \* every byte that was put in front of the reader (history)
    built,   \* the value built by hand for outbound encoding, or Nil
    stream,  \* the unread bytes of the bufio.Reader
    resp,    \* the Resp returned by the last ReadProtocol (or built by hand)
    err,     \* the error returned by the last ReadProtocol, "nil" for none
    sink,    \* the bytes written and flushed through the bufio.Writer
    werr,    \* the error returned by the last WriteProtocol, "nil" for none
    reads,   \* ReadProtocol calls made so far
    writes,  \* WriteProtocol calls made so far
    argc,    \* <<n>> after Length() returned n for resp, <<>> before
    pc       \* "idle" | "have" (a result in hand) | "closed" | "crashed"

vars == <<input, built, stream, resp, err, sink, werr, reads, writes, argc, pc>>

----------------------------------------------------------------------------
(* Bounds of the model. *)

\* longest payload of a Simple / Error / Integer line
MaxText == 1
\* longest content of a Bulk string
MaxBulk == 2
\* most children of an Array
MaxChildren == 2

----------------------------------------------------------------------------
(* Package-level values, parser.go:21-39. *)

SimpleType == "simple"
ErrorType == "error"
IntType == "int"
BulkType == "bulk"
ArrayType == "array"

SimpSep == "+"
ErrSep == "-"
IntSep == ":"
BulkSep == "$"
ArrSep == "*"
CR == "\r"
LF == "\n"
CRLF == <<CR, LF>>

PING == <<"P", "I", "N", "G">>
QUIT == <<"Q", "U", "I", "T">>

----------------------------------------------------------------------------
(* Values.  variant is the concrete Go type behind the Resp interface,     *)
(* Rtype and Args the BaseResp fields, Empty the BulkResp flag, Kids the   *)
(* ArrayResp.Args slice of *BulkResp.                                      *)

Nil == [variant |-> "nil", Rtype |-> "", Args |-> <<>>, Empty |-> FALSE, Kids |-> <<>>]

MkResp(variant, rtype, args) ==
    [variant |-> variant, Rtype |-> rtype, Args |-> args, Empty |-> FALSE, Kids |-> <<>>]

MkBulk(args, empty) ==
    [variant |-> "bulk", Rtype |-> BulkType, Args |-> args, Empty |-> empty, Kids |-> <<>>]

MkArray(kids) ==
    [variant |-> "array", Rtype |-> ArrayType, Args |-> <<>>, Empty |-> FALSE, Kids |-> kids]

----------------------------------------------------------------------------
(* util.Itob and util.ParseLen, the integer / length codec (spec 4.4).     *)

Digits == <<"0", "1", "2", "3", "4", "5", "6", "7", "8", "9">>

IsDigit(b) == \E d \in 1..10 : Digits[d] = b

DigitVal(b) == (CHOOSE d \in 1..10 : Digits[d] = b) - 1

RECURSIVE Itob(_)
Itob(n) == IF n < 10 THEN <<Digits[n + 1]>> ELSE Itob(n \div 10) \o <<Digits[(n % 10) + 1]>>

RECURSIVE DecVal(_)
DecVal(p) == IF Len(p) = 0 THEN 0 ELSE 10 * DecVal(SubSeq(p, 1, Len(p) - 1)) + DigitVal(p[Len(p)])

\* [n, ok]: the parsed length, or ok = FALSE for a parse error
ParseLen(p) ==
    IF Len(p) = 0 THEN [n |-> -1, ok |-> FALSE]
    ELSE IF p = <<"-", "1">> THEN [n |-> -1, ok |-> TRUE]
    ELSE IF \A i \in 1..Len(p) : IsDigit(p[i]) THEN [n |-> DecVal(p), ok |-> TRUE]
    ELSE [n |-> -1, ok |-> FALSE]

----------------------------------------------------------------------------
(* Encode: [bytes, panic].                                                 *)

Rendered(bytes) == [bytes |-> bytes, panic |-> FALSE]
EncodePanic == [bytes |-> <<>>, panic |-> TRUE]

\* SimpleResp / ErrorResp / IntResp .Encode: the type check, then sigil, Args[0], CRLF
EncodeLine(v, sep, type) ==
    IF v.Rtype # type THEN EncodePanic
    ELSE IF Len(v.Args) = 0 THEN EncodePanic
    ELSE Rendered(<<sep>> \o v.Args[1] \o CRLF)

\* faulty variant: the terminator after the payload is left out
EncodeBulkUnterminated(v) ==
    IF v.Rtype # BulkType THEN EncodePanic
    ELSE IF v.Empty THEN Rendered(<<"$", "-", "1", CR, LF>>)
    ELSE IF Len(v.Args) = 0 THEN EncodePanic
    ELSE Rendered(<<BulkSep>> \o Itob(Len(v.Args[1])) \o CRLF \o v.Args[1])

\* BulkResp.Encode
EncodeBulk(v) ==
    IF v.Rtype # BulkType THEN EncodePanic
    ELSE IF v.Empty THEN Rendered(<<"$", "-", "1", CR, LF>>)
    ELSE IF Len(v.Args) = 0 THEN EncodePanic
    ELSE Rendered(<<BulkSep>> \o Itob(Len(v.Args[1])) \o CRLF \o v.Args[1] \o CRLF)

RECURSIVE EncodeKids(_)
EncodeKids(kids) ==
    IF Len(kids) = 0 THEN Rendered(<<>>)
    ELSE LET h == EncodeBulk(Head(kids))
             t == EncodeKids(Tail(kids))
         IN  IF h.panic \/ t.panic THEN EncodePanic ELSE Rendered(h.bytes \o t.bytes)

EncodeArray(v) ==
    IF v.Rtype # ArrayType THEN EncodePanic
    ELSE LET k == EncodeKids(v.Kids)
         IN  IF k.panic THEN EncodePanic
             ELSE Rendered(<<ArrSep>> \o Itob(Len(v.Kids)) \o CRLF \o k.bytes)

\* r.Encode() through the Resp interface; a nil interface panics
Encode(v) ==
    CASE v.variant = "simple" -> EncodeLine(v, SimpSep, SimpleType)
      [] v.variant = "error" -> EncodeLine(v, ErrSep, ErrorType)
      [] v.variant = "int" -> EncodeLine(v, IntSep, IntType)
      [] v.variant = "bulk" -> EncodeBulk(v)
      [] v.variant = "array" -> EncodeArray(v)
      [] OTHER -> EncodePanic

----------------------------------------------------------------------------
(* Length().                                                               *)

BaseLength(v) == 0

\* faulty variant: the number of children
ArrayLengthFull(v) == Len(v.Kids)

ArrayLength(v) == Len(v.Kids) - 1

Length(v) == IF v.variant = "array" THEN ArrayLength(v) ELSE BaseLength(v)

----------------------------------------------------------------------------
(* ReadProtocol: [val, err, rest, panic].  val is Nil when no value is     *)
(* returned, err is "nil" for a nil error, rest is what the reader still   *)
(* holds, panic a runtime panic (slice bounds out of range).               *)

Ok(v, rest) == [val |-> v, err |-> "nil", rest |-> rest, panic |-> FALSE]
Fail(e, rest) == [val |-> Nil, err |-> e, rest |-> rest, panic |-> FALSE]
Panicked(rest) == [val |-> Nil, err |-> "nil", rest |-> rest, panic |-> TRUE]

\* r.ReadBytes('\n'): the length of the line up to and including the first
\* line feed, 0 when the stream ends before one (the read then fails)
ReadBytes(r) ==
    LET at == {i \in 1..Len(r) : r[i] = LF}
    IN  IF at = {} THEN 0 ELSE CHOOSE i \in at : \A j \in at : i <= j

\* res[1:len(res)-2] is in bounds
SliceOk(res) == Len(res) >= 3

\* faulty variant: only the line feed is stripped
LineBodyKeepCR(res) == SubSeq(res, 2, Len(res) - 1)

\* res[1 : len(res)-2]
LineBody(res) == SubSeq(res, 2, Len(res) - 2)

\* case SimpSep / ErrSep / IntSep
ReadLineResp(res, rest, variant, type) ==
    IF ~SliceOk(res) THEN Panicked(rest)
    ELSE Ok(MkResp(variant, type, <<LineBody(res)>>), rest)

\* faulty variant: the payload is read as a line, up to the next line feed
ReadFullLine(r, n) ==
    IF ReadBytes(r) = 0 THEN [ok |-> FALSE, buf |-> r, rest |-> <<>>]
    ELSE [ok |-> TRUE, buf |-> SubSeq(r, 1, ReadBytes(r)),
          rest |-> SubSeq(r, ReadBytes(r) + 1, Len(r))]

\* io.ReadFull(r, buf) with len(buf) = n: [ok, buf, rest]
ReadFull(r, n) ==
    IF Len(r) >= n THEN [ok |-> TRUE, buf |-> SubSeq(r, 1, n), rest |-> SubSeq(r, n + 1, Len(r))]
    ELSE [ok |-> FALSE, buf |-> r, rest |-> <<>>]

\* the size of the buffer that holds a bulk payload of declared length l
BulkBufLen(l) == l + 2

\* faulty variant: a zero length is taken for the null marker too
IsNullLenOrZero(l) == l <= 0

\* l == -1
IsNullLen(l) == l = -1

\* case BulkSep
ReadBulk(res, rest) ==
    IF ~SliceOk(res) THEN Panicked(rest)
    ELSE LET l == ParseLen(LineBody(res))
         IN  IF ~l.ok THEN Fail("parse", rest)
             ELSE IF IsNullLen(l.n) THEN Ok(MkBulk(<<>>, TRUE), rest)
             ELSE LET f == ReadFull(rest, BulkBufLen(l.n))
                  IN  IF ~f.ok
                      THEN \* return nil, err: err is ParseLen's, which is nil here
                           [val |-> Nil, err |-> "nil", rest |-> f.rest, panic |-> FALSE]
                      ELSE Ok(MkBulk(<<SubSeq(f.buf, 1, Len(f.buf) - 2)>>, FALSE), f.rest)

\* faulty variant: any value that was decoded is accepted as a child
ArgAcceptedAny(rsp) == rsp.variant # "nil"

\* br, ok := rsp.(*BulkResp)
ArgAccepted(rsp) == rsp.variant = "bulk"

\* faulty variant: only lines that are too short are rejected
InlineOkAtLeast(res) == Len(res) >= 6

\* len(res) != 6 rejects an inline command
InlineOk(res) == Len(res) = 6

\* case 'Q', 'q' / 'p', 'P'
ReadInline(res, rest, word) ==
    IF ~InlineOk(res) THEN Fail("inline", rest)
    ELSE Ok(MkArray(<<MkBulk(<<word>>, FALSE)>>), rest)

RECURSIVE ReadProtocol(_), ReadArgs(_, _, _)

\* the loop of case ArrSep: n children still to read from r, kids read so far
ReadArgs(r, n, kids) ==
    IF n <= 0 THEN Ok(MkArray(kids), r)
    ELSE LET c == ReadProtocol(r)
         IN  IF c.panic THEN Panicked(c.rest)
             ELSE IF c.err # "nil" THEN Fail(c.err, c.rest)
             ELSE IF ~ArgAccepted(c.val) THEN Fail("framing", c.rest)
             ELSE ReadArgs(c.rest, n - 1, Append(kids, c.val))

\* case ArrSep
ReadArray(res, rest) ==
    IF ~SliceOk(res) THEN Panicked(rest)
    ELSE LET n == ParseLen(LineBody(res))
         IN  IF ~n.ok THEN Fail("parse", rest) ELSE ReadArgs(rest, n.n, <<>>)

ReadProtocol(r) ==
    LET n == ReadBytes(r)
    IN  IF n = 0 THEN Fail("EOF", <<>>)
        ELSE LET res == SubSeq(r, 1, n)
                 rest == SubSeq(r, n + 1, Len(r))
             IN  CASE res[1] = SimpSep -> ReadLineResp(res, rest, "simple", SimpleType)
                   [] res[1] = ErrSep -> ReadLineResp(res, rest, "error", ErrorType)
                   [] res[1] = IntSep -> ReadLineResp(res, rest, "int", IntType)
                   [] res[1] = BulkSep -> ReadBulk(res, rest)
                   [] res[1] = ArrSep -> ReadArray(res, rest)
                   [] res[1] \in {"Q", "q"} -> ReadInline(res, rest, QUIT)
                   [] res[1] \in {"p", "P"} -> ReadInline(res, rest, PING)
                   [] OTHER -> Fail("unexpected", rest)

----------------------------------------------------------------------------
(* What the peer puts on the wire (spec 6) and what producing code builds. *)

TextBytes == {"a", "1"}
PayloadBytes == {"a", CR, LF}

SeqsUpTo(S, n) == UNION {[1..k -> S] : k \in 0..n}

RECURSIVE Flatten(_)
Flatten(ss) == IF Len(ss) = 0 THEN <<>> ELSE Head(ss) \o Flatten(Tail(ss))

WireLine(sep, text) == <<sep>> \o text \o CRLF
WireNull == <<"$", "-", "1", CR, LF>>
WireBulk(content) == <<"$">> \o Itob(Len(content)) \o CRLF \o content \o CRLF
WireArray(items) == <<"*">> \o Itob(Len(items)) \o CRLF \o Flatten(items)

\* the contents of the bulk strings sent as array arguments
ArgContents == {<<>>, <<"a">>, <<LF>>, <<CR, LF>>}

LineFrames == {WireLine(sep, t) : sep \in {SimpSep, ErrSep, IntSep}, t \in SeqsUpTo(TextBytes, MaxText)}
BulkFrames == {WireNull} \cup {WireBulk(c) : c \in SeqsUpTo(PayloadBytes, MaxBulk)}
ArgFrames == {WireNull} \cup {WireBulk(c) : c \in ArgContents}
ArrayFrames == {WireArray(items) : items \in SeqsUpTo(ArgFrames, MaxChildren)}
InlineWords == {PING \o CRLF, <<"p", "i", "n", "g">> \o CRLF, QUIT \o CRLF, <<"q", "u", "i", "t">> \o CRLF}
Frames == LineFrames \cup BulkFrames \cup ArrayFrames

\* what may follow a frame on the same connection
Tails ==
    { <<>>, <<LF>>, <<"x">>,
      WireLine(SimpSep, <<"a">>), WireNull, WireBulk(<<LF>>),
      WireArray(<<WireBulk(<<"a">>)>>), PING \o CRLF,
      WireBulk(<<CR, LF>>) \o WireLine(IntSep, <<"1">>) }

\* arrays of full RESP, whose children are of any kind
NonBulkItems ==
    { WireLine(SimpSep, <<"a">>), WireLine(ErrSep, <<"a">>), WireLine(IntSep, <<"1">>),
      WireArray(<<>>), WireArray(<<WireBulk(<<"a">>)>>), PING \o CRLF, <<"q", "u", "i", "t">> \o CRLF }
MixedArrays == {WireArray(items) : items \in SeqsUpTo(ArgFrames \cup NonBulkItems, MaxChildren)}

\* a frame damaged in transit: cut short, one byte lost, one byte doubled
Cut(s, i) == SubSeq(s, 1, i - 1)
Drop(s, i) == SubSeq(s, 1, i - 1) \o SubSeq(s, i + 1, Len(s))
Dup(s, i) == SubSeq(s, 1, i) \o SubSeq(s, i, Len(s))
Damaged(S) == UNION {UNION {{Cut(s, i), Drop(s, i), Dup(s, i)} : i \in 1..Len(s)} : s \in S}

Inputs ==
    {f \o t : f \in Frames \cup InlineWords, t \in Tails}
        \cup MixedArrays
        \cup Damaged(Frames \cup InlineWords)

\* values built by producing code that keeps the data model's invariants ...
LineValues ==
    {MkResp(k[1], k[2], <<t>>) :
        k \in {<<"simple", SimpleType>>, <<"error", ErrorType>>, <<"int", IntType>>},
        t \in SeqsUpTo(TextBytes \cup {CR}, MaxText)}
BulkValues == {MkBulk(<<>>, TRUE)} \cup {MkBulk(<<c>>, FALSE) : c \in SeqsUpTo(PayloadBytes, MaxBulk)}
ArgValues == {MkBulk(<<>>, TRUE)} \cup {MkBulk(<<c>>, FALSE) : c \in ArgContents}
ArrayValues == {MkArray(kids) : kids \in SeqsUpTo(ArgValues, MaxChildren)}
Values == LineValues \cup BulkValues \cup ArrayValues

\* ... values that break them while keeping the matching Rtype ...
OddValues ==
    { MkResp("simple", SimpleType, <<<<"a", LF>>>>), MkResp("error", ErrorType, <<<<LF>>>>),
      MkResp("int", IntType, <<<<"1">>, <<"1">>>>), MkResp("simple", SimpleType, <<>>),
      MkBulk(<<<<"a">>>>, TRUE), MkBulk(<<>>, FALSE), MkBulk(<<<<"a">>, <<>>>>, FALSE),
      MkArray(<<MkBulk(<<>>, FALSE)>>) }

\* ... and values whose Rtype does not match their variant
MisWired ==
    { MkResp("simple", ErrorType, <<<<"a">>>>), MkResp("int", BulkType, <<<<"1">>>>),
      [MkBulk(<<<<"a">>>>, FALSE) EXCEPT !.Rtype = ArrayType],
      [MkArray(<<>>) EXCEPT !.Rtype = BulkType],
      MkArray(<<[MkBulk(<<<<"a">>>>, FALSE) EXCEPT !.Rtype = SimpleType]>>) }

Constructible == Values \cup OddValues \cup MisWired

----------------------------------------------------------------------------
(* The state machine.                                                      *)

Init ==
    /\ \/ /\ input \in Inputs
          /\ built = Nil
          /\ pc = "idle"
       \/ /\ input = <<>>
          /\ built \in Constructible
          /\ pc = "have"
    /\ stream = input
    /\ resp = built
    /\ err = "nil"
    /\ sink = <<>>
    /\ werr = "nil"
    /\ reads = 0
    /\ writes = 0
    /\ argc = <<>>

\* resp, err := ReadProtocol(r)
ReadProtocolCall ==
    /\ pc \in {"idle", "have"}
    /\ LET r == ReadProtocol(stream)
       IN  /\ stream' = r.rest
           /\ resp' = r.val
           /\ err' = r.err
           /\ pc' = IF r.panic THEN "crashed" ELSE IF r.err # "nil" THEN "closed" ELSE "have"
    /\ reads' = reads + 1
    /\ argc' = <<>>
    /\ UNCHANGED <<input, built, sink, werr, writes>>

\* WriteRawByte(w, data): w.Write, then w.Flush.  With ok both succeed and the
\* whole of data has been flushed; otherwise one of them fails and its error is
\* returned (what part of data went out is then not recorded)
WriteRawByte(data, ok) ==
    [sink |-> IF ok THEN sink \o data ELSE sink, err |-> IF ok THEN "nil" ELSE "write"]

\* err := WriteProtocol(w, resp): WriteRawByte(w, resp.Encode())
WriteProtocolCall ==
    /\ pc = "have"
    /\ LET e == Encode(resp)
       IN  IF e.panic
           THEN /\ pc' = "crashed"
                /\ UNCHANGED <<sink, werr>>
           ELSE \E ok \in BOOLEAN :
                    LET w == WriteRawByte(e.bytes, ok)
                    IN  /\ sink' = w.sink
                        /\ werr' = w.err
                        /\ pc' = IF w.err = "nil" THEN "idle" ELSE "closed"
    /\ writes' = writes + 1
    /\ UNCHANGED <<input, built, stream, resp, err, reads, argc>>

\* resp.Length(); on a nil interface the call panics
LengthCall ==
    /\ pc = "have"
    /\ argc = <<>>
    /\ argc' = IF resp = Nil THEN argc ELSE <<Length(resp)>>
    /\ pc' = IF resp = Nil THEN "crashed" ELSE pc
    /\ UNCHANGED <<input, built, stream, resp, err, sink, werr, reads, writes>>

\* the bytes written for a hand-built value reach a reader on the other end
Deliver ==
    /\ pc = "idle"
    /\ built # Nil
    /\ input = <<>>
    /\ sink # <<>>
    /\ input' = sink
    /\ stream' = sink
    /\ UNCHANGED <<built, resp, err, sink, werr, reads, writes, argc, pc>>

Next == ReadProtocolCall \/ WriteProtocolCall \/ LengthCall \/ Deliver

Spec == Init /\ [][Next]_vars

----------------------------------------------------------------------------
(* The wire format of spec 6, recognised on the bytes alone.               *)

HasPrefix(p, s) == Len(p) <= Len(s) /\ SubSeq(s, 1, Len(p)) = p

From(s, i) == IF i > Len(s) THEN <<>> ELSE SubSeq(s, i, Len(s))

\* the first line of s: the bytes up to and including the first line feed,
\* the whole of s when it holds none
FirstLine(s) == IF ReadBytes(s) = 0 THEN s ELSE SubSeq(s, 1, ReadBytes(s))

\* the length of the Simple / Error / Integer frame that starts s, 0 for none:
\* a sigil, a text free of CR and LF, the terminator
LineFrameLen(s) ==
    IF Len(s) < 3 \/ s[1] \notin {"+", "-", ":"} THEN 0
    ELSE LET stops == {i \in 2..Len(s) : s[i] \in {CR, LF}}
         IN  IF stops = {} THEN 0
             ELSE LET p == CHOOSE i \in stops : \A j \in stops : i <= j
                  IN  IF s[p] = CR /\ p < Len(s) /\ s[p + 1] = LF THEN p + 1 ELSE 0

\* the header "<sigil><decimal n>\r\n"
Header(sigil, n) == <<sigil>> \o Itob(n) \o <<CR, LF>>

\* the length of the Bulk frame that starts s, 0 for none: the null marker, or
\* a header with the length L, L content bytes of any value, the terminator
BulkFrameLen(s) ==
    IF HasPrefix(<<"$", "-", "1", CR, LF>>, s) THEN 5
    ELSE LET fits == {L \in 0..Len(s) :
                        /\ HasPrefix(Header("$", L), s)
                        /\ Len(s) >= Len(Header("$", L)) + L + 2
                        /\ s[Len(Header("$", L)) + L + 1] = CR
                        /\ s[Len(Header("$", L)) + L + 2] = LF}
         IN  IF fits = {} THEN 0
             ELSE LET L == CHOOSE L \in fits : TRUE IN Len(Header("$", L)) + L + 2

\* the length of n Bulk frames in a row at the start of s, -1 for none
RECURSIVE BulkRunLen(_, _)
BulkRunLen(s, n) ==
    IF n = 0 THEN 0
    ELSE LET k == BulkFrameLen(s)
         IN  IF k = 0 THEN -1
             ELSE LET m == BulkRunLen(From(s, k + 1), n - 1)
                  IN  IF m = -1 THEN -1 ELSE k + m

\* the length of the Array frame that starts s, 0 for none: a header with the
\* count N, then N Bulk frames
ArrayFrameLen(s) ==
    LET fits == {N \in 0..Len(s) :
                    /\ HasPrefix(Header("*", N), s)
                    /\ BulkRunLen(From(s, Len(Header("*", N)) + 1), N) # -1}
    IN  IF fits = {} THEN 0
        ELSE LET N == CHOOSE N \in fits : TRUE
             IN  Len(Header("*", N)) + BulkRunLen(From(s, Len(Header("*", N)) + 1), N)

\* the length of the well-formed frame that starts s, 0 for none
FrameLen(s) ==
    IF Len(s) = 0 THEN 0
    ELSE IF s[1] = "$" THEN BulkFrameLen(s)
    ELSE IF s[1] = "*" THEN ArrayFrameLen(s)
    ELSE LineFrameLen(s)

\* where the j-th of j well-formed frames in a row at the start of s ends,
\* -1 when s does not start with j frames
RECURSIVE FramesEnd(_, _)
FramesEnd(s, j) ==
    IF j = 0 THEN 0
    ELSE LET e == FramesEnd(s, j - 1)
         IN  IF e = -1 THEN -1
             ELSE LET k == FrameLen(From(s, e + 1))
                  IN  IF k = 0 THEN -1 ELSE e + k

\* the j-th frame of s
FrameNo(s, j) == SubSeq(s, FramesEnd(s, j - 1) + 1, FramesEnd(s, j))

----------------------------------------------------------------------------
(* Claims.                                                                 *)

\* C1: wire round trip.  When the bytes in front of the reader start with a
\* well-formed frame of one of the five kinds, the first ReadProtocol succeeds,
\* and WriteProtocol of what it returned writes exactly the bytes of that frame.
WireRoundTrip ==
    (built = Nil /\ reads = 1 /\ FrameLen(input) > 0) =>
        /\ pc # "crashed"
        /\ err = "nil"
        /\ resp # Nil
        /\ (writes = 1 /\ werr = "nil") => sink = SubSeq(input, 1, FrameLen(input))

\* C1 witness: an array of two bulk strings, one holding CR LF, was decoded and
\* written back byte for byte.
WireRoundTripSeen ==
    /\ built = Nil
    /\ input = WireArray(<<WireBulk(<<CR, LF>>), WireBulk(<<"a">>)>>)
    /\ reads = 1
    /\ writes = 1
    /\ sink = input

\* C4: exact consumption.  When the input starts with j well-formed frames, the
\* j-th ReadProtocol succeeds, leaves the reader exactly behind the j-th frame,
\* and returns the value of the j-th frame (what decoding that frame alone gives).
ExactConsumption ==
    (built = Nil /\ reads >= 1 /\ FramesEnd(input, reads) # -1) =>
        /\ pc # "crashed"
        /\ err = "nil"
        /\ resp # Nil
        /\ stream = From(input, FramesEnd(input, reads) + 1)
        /\ resp = ReadProtocol(FrameNo(input, reads)).val

\* C4 witness: three frames back to back, the second a bulk string holding CR LF,
\* were decoded by three calls.
ExactConsumptionSeen ==
    /\ built = Nil
    /\ input = WireArray(<<WireBulk(<<LF>>)>>) \o WireBulk(<<CR, LF>>) \o WireLine(IntSep, <<"1">>)
    /\ reads = 3
    /\ stream = <<>>
    /\ resp = MkResp("int", IntType, <<<<"1">>>>)

\* C8: null bulk and empty bulk are distinct both ways.  "$-1\r\n" decodes to the
\* null bulk (flag set, no element) and leaves every byte after the header in the
\* reader, and the null bulk encodes to those 5 bytes; "$0\r\n\r\n" decodes to a
\* non-null bulk with one zero-length element, which encodes to "$0\r\n\r\n".
NullAndEmptyBulk ==
    /\ (built = Nil /\ reads = 1 /\ HasPrefix(<<"$", "-", "1", CR, LF>>, input)) =>
          /\ pc # "crashed"
          /\ err = "nil"
          /\ resp = MkBulk(<<>>, TRUE)
          /\ stream = From(input, 6)
          /\ (writes = 1 /\ werr = "nil") => sink = <<"$", "-", "1", CR, LF>>
    /\ (built = Nil /\ reads = 1 /\ HasPrefix(<<"$", "0", CR, LF, CR, LF>>, input)) =>
          /\ pc # "crashed"
          /\ err = "nil"
          /\ resp = MkBulk(<<<<>>>>, FALSE)
          /\ stream = From(input, 7)
          /\ (writes = 1 /\ werr = "nil") => sink = <<"$", "0", CR, LF, CR, LF>>
    /\ (built = MkBulk(<<>>, TRUE) /\ writes = 1 /\ werr = "nil" /\ reads = 0) =>
          (pc = "idle" /\ sink = <<"$", "-", "1", CR, LF>>)
    /\ (built = MkBulk(<<<<>>>>, FALSE) /\ writes = 1 /\ werr = "nil" /\ reads = 0) =>
          (pc = "idle" /\ sink = <<"$", "0", CR, LF, CR, LF>>)

\* C8 witness: "$-1\r\n" followed by a line feed was decoded to the null bulk, the
\* line feed is still in the reader, and the null bulk was written as 5 bytes.
NullAndEmptyBulkSeen ==
    /\ built = Nil
    /\ input = <<"$", "-", "1", CR, LF, LF>>
    /\ reads = 1
    /\ writes = 1
    /\ resp.Empty
    /\ stream = <<LF>>
    /\ Len(sink) = 5

\* C6: inline commands.  A first line "PING\r\n" or "ping\r\n" decodes to an
\* Array of exactly one Bulk "PING", "QUIT\r\n" or "quit\r\n" to an Array of
\* exactly one Bulk "QUIT", and an input that starts with P, p, Q or q whose first
\* line is not exactly 6 bytes long fails with an error and no value.
InlineCommands ==
    (built = Nil /\ reads = 1) =>
        /\ FirstLine(input) \in {PING \o CRLF, <<"p", "i", "n", "g">> \o CRLF} =>
              /\ pc # "crashed"
              /\ err = "nil"
              /\ resp = MkArray(<<MkBulk(<<PING>>, FALSE)>>)
        /\ FirstLine(input) \in {QUIT \o CRLF, <<"q", "u", "i", "t">> \o CRLF} =>
              /\ pc # "crashed"
              /\ err = "nil"
              /\ resp = MkArray(<<MkBulk(<<QUIT>>, FALSE)>>)
        /\ (Len(input) > 0 /\ input[1] \in {"P", "p", "Q", "q"} /\ Len(FirstLine(input)) # 6) =>
              /\ pc = "closed"
              /\ err # "nil"
              /\ resp = Nil

\* C6 witness: "ping\r\n" was decoded to the Array of the one Bulk "PING".
InlineCommandsSeen ==
    /\ built = Nil
    /\ input = <<"p", "i", "n", "g", CR, LF>>
    /\ reads = 1
    /\ err = "nil"
    /\ resp = MkArray(<<MkBulk(<<PING>>, FALSE)>>)

\* among the first n children decoded from s, one is decoded to a value that
\* is not a Bulk, every child before it being decoded to a Bulk
RECURSIVE NonBulkChild(_, _)
NonBulkChild(s, n) ==
    IF n <= 0 THEN FALSE
    ELSE LET c == ReadProtocol(s)
         IN  IF c.panic \/ c.err # "nil" \/ c.val = Nil THEN FALSE
             ELSE IF c.val.variant # "bulk" THEN TRUE
             ELSE NonBulkChild(c.rest, n - 1)

\* C7: array framing mismatch.  When one of the children decoded for an array
\* header is a value that is not a Bulk (a Simple, an Error, an Integer, a nested
\* Array, an inline word), whatever its position, the array decode fails with the
\* framing error, returns no value and does not panic.
ArrayFraming ==
    (/\ built = Nil
     /\ reads = 1
     /\ \E N \in 1..Len(input) :
            /\ HasPrefix(Header("*", N), input)
            /\ NonBulkChild(From(input, Len(Header("*", N)) + 1), N)) =>
        /\ pc = "closed"
        /\ err = "framing"
        /\ resp = Nil

\* C7 witness: an array of a Bulk and then an inline PING was rejected.
ArrayFramingSeen ==
    /\ built = Nil
    /\ input = WireArray(<<WireBulk(<<"a">>), PING \o CRLF>>)
    /\ reads = 1
    /\ pc = "closed"
    /\ err = "framing"

\* C10: Length() is 0 for a Simple, Error, Integer or Bulk value and the number
\* of children minus one for an Array, decoded or built by hand: 0 for the array
\* of an inline PING / QUIT, -1 for the array of a zero-count header.
ArgumentCount ==
    argc # <<>> =>
        /\ argc[1] = IF resp.variant = "array" THEN Len(resp.Kids) - 1 ELSE 0
        /\ (built = Nil /\ reads = 1 /\ FirstLine(input) \in InlineWords) => argc[1] = 0
        /\ (built = Nil /\ reads = 1 /\ HasPrefix(<<"*", "0", CR, LF>>, input)) => argc[1] = -1

\* C10 witness: Length() of the array decoded from "*0\r\n" returned -1.
ArgumentCountSeen ==
    /\ built = Nil
    /\ input = <<"*", "0", CR, LF>>
    /\ reads = 1
    /\ resp.variant = "array"
    /\ argc = <<-1>>

\* s starts with a bulk header that declares a length L >= 0 and is followed by
\* fewer than L + 2 bytes
ShortBulk(s) ==
    \E L \in 0..Len(s) :
        /\ HasPrefix(Header("$", L), s)
        /\ Len(s) - Len(Header("$", L)) < L + 2

\* C3: short read on a bulk payload.  For a bulk header that declares L >= 0 and
\* is followed by fewer than L + 2 bytes, ReadProtocol returns a non-nil error
\* and no value.
ShortReadFails ==
    (built = Nil /\ reads = 1 /\ ShortBulk(input)) =>
        /\ pc = "closed"
        /\ err # "nil"
        /\ resp = Nil

\* the first line of s starts with a known sigil and does not end with CR LF
MalformedHeader(s) ==
    /\ ReadBytes(s) > 0
    /\ s[1] \in {"+", "-", ":", "$", "*"}
    /\ ~(ReadBytes(s) >= 2 /\ s[ReadBytes(s) - 1] = CR)

\* C5: malformed header line.  For an input whose first line starts with a known
\* sigil and does not end with CR LF, ReadProtocol returns an error and no value;
\* it neither panics nor returns a value.
MalformedHeaderFails ==
    (built = Nil /\ reads = 1 /\ MalformedHeader(input)) =>
        /\ pc = "closed"
        /\ err # "nil"
        /\ resp = Nil

\* the Rtype that goes with a variant
TypeName(v) ==
    CASE v.variant = "simple" -> SimpleType
      [] v.variant = "error" -> ErrorType
      [] v.variant = "int" -> IntType
      [] v.variant = "bulk" -> BulkType
      [] v.variant = "array" -> ArrayType
      [] OTHER -> "none"

\* a null bulk, or exactly one element
OneElement(v) == (v.variant = "bulk" /\ v.Empty) \/ Len(v.Args) = 1

\* C9: every value ReadProtocol returns with a nil error, and every Bulk child of
\* a returned Array, has the Rtype of its variant and, unless a null bulk, exactly
\* one element, so that Encode of it does not panic.
DecodedValueRenders ==
    (reads >= 1 /\ pc = "have") =>
        /\ resp # Nil
        /\ resp.Rtype = TypeName(resp)
        /\ resp.variant # "array" => OneElement(resp)
        /\ \A i \in 1..Len(resp.Kids) :
              /\ resp.Kids[i].variant = "bulk"
              /\ resp.Kids[i].Rtype = BulkType
              /\ OneElement(resp.Kids[i])
        /\ ~Encode(resp).panic

\* the data model's invariants (spec 3), a line-oriented payload being free of
\* line feeds
WellFormedBulk(v) ==
    /\ v.variant = "bulk"
    /\ v.Rtype = BulkType
    /\ IF v.Empty THEN Len(v.Args) = 0 ELSE Len(v.Args) = 1
WellFormed(v) ==
    CASE v.variant \in {"simple", "error", "int"} ->
            /\ v.Rtype = TypeName(v)
            /\ Len(v.Args) = 1
            /\ \A i \in 1..Len(v.Args[1]) : v.Args[1][i] # LF
      [] v.variant = "bulk" -> WellFormedBulk(v)
      [] v.variant = "array" ->
            /\ v.Rtype = ArrayType
            /\ \A i \in 1..Len(v.Kids) : WellFormedBulk(v.Kids[i])
      [] OTHER -> FALSE

\* C2 as stated: for every value built by hand with the Rtype of its variant,
\* decoding the bytes written for it returns a value equal to it.
ValueRoundTripAnyValue ==
    (built # Nil /\ built.Rtype = TypeName(built) /\ input # <<>> /\ reads = 1) =>
        /\ pc # "crashed"
        /\ err = "nil"
        /\ resp = built

\* C2 as amended: every value that keeps the data model's invariants (one
\* element free of line feeds for a Simple, Error or Integer, no element for a
\* null Bulk and one for any other Bulk, such Bulks as the children of an Array)
\* is encoded without a panic, and decoding the bytes written for it returns a
\* value equal to it.
ValueRoundTrip ==
    (built # Nil /\ WellFormed(built)) =>
        /\ (writes = 1 /\ reads = 0) => pc # "crashed"
        /\ (input # <<>> /\ reads = 1) =>
              /\ pc # "crashed"
              /\ err = "nil"
              /\ resp = built

\* C2 witness: an array of the null bulk and a bulk holding CR LF, built by hand,
\* was written, read back and came out equal.
ValueRoundTripSeen ==
    /\ built = MkArray(<<MkBulk(<<>>, TRUE), MkBulk(<<<<CR, LF>>>>, FALSE)>>)
    /\ input # <<>>
    /\ reads = 1
    /\ resp = built

====
